---- MODULE Spec2Model ----
(***************************************************************************)
(* train.py: the epoch-based learning-rate schedule callback and the       *)
(* training script that drives it.                                         *)
(*                                                                         *)
(* Learning rates are natural numbers counting units of 1e-7, so the       *)
(* shipped rates 0.001, 0.0001 and 0.00001 are 10000, 1000 and 100.  A     *)
(* rate is compared at the precision of the optimizer's variable: reading  *)
(* it back returns the value that was stored.                              *)
(***************************************************************************)
EXTENDS Integers, Sequences, FiniteSets

VARIABLES
    pc,                 \* position of the script / of fit / of the callback
    export_only,        \* args.export_only
    eval_only,          \* args.eval_only
    initial_epoch,      \* args.initial_epoch
    epochs,             \* args.epochs
    latest_checkpoint,  \* tf.train.latest_checkpoint(...) found a checkpoint
    calls,              \* model.* calls of the script, in order
    schedule,           \* EpochBasedLearningRateSchedule.schedule
    hasLr,              \* hasattr(self.model.optimizer, "lr")
    optLr,              \* self.model.optimizer.lr
    epoch,              \* epoch argument of on_epoch_begin
    lr,                 \* local lr of on_epoch_begin
    scheduled_lr,       \* local scheduled_lr of on_epoch_begin
    log,                \* lines printed by on_epoch_begin: <<epoch, rate>>
    step,               \* training steps run in the current epoch
    events,             \* what has happened since on_epoch_begin was entered
    lr0,                \* the optimizer's rate before the first callback run
    lrAtEpochEnd,       \* the optimizer's rate when the previous epoch ended
    ncalls              \* completed on_epoch_begin runs

vars == <<pc, export_only, eval_only, initial_epoch, epochs, latest_checkpoint,
          calls, schedule, hasLr, optLr, epoch, lr, scheduled_lr, log, step,
          events, lr0, lrAtEpochEnd, ncalls>>

\* ------------------------------------------------------------- bounds
\* Breakpoint epochs of the enumerated schedules are 0..MaxEpoch.
MaxEpoch == 2
\* Enumerated schedules have 1..MaxLen breakpoints.
MaxLen == 2
\* Enumerated rates are 1..MaxRate (units of 1e-7).
MaxRate == 3
\* Training steps per epoch.
NumSteps == 2
\* Epochs a run is followed past the last breakpoint of its schedule.
MaxTail == 2
\* on_epoch_begin runs followed when the host calls it in any order.
MaxCalls == 2

\* ------------------------------------------------- program constants
\* keras.optimizers.Adam(0.0001)
OptimizerDefault == 1000
\* --epochs default
DefaultEpochs == 60
\* schedule = [(1, 0.001), (30, 0.0001), (50, 0.00001)]
ShippedSchedule == << <<1, 10000>>, <<30, 1000>>, <<50, 100>> >>

\* A local that has not been assigned yet.
Unset == -1

Rates == 1..MaxRate

\* Schedules the callback may be constructed with: non-empty, sorted
\* ascending by epoch, unique epochs.
IsValidSchedule(s) ==
    /\ Len(s) >= 1
    /\ \A i \in 1..(Len(s) - 1) : s[i][1] < s[i + 1][1]

ValidSchedules ==
    { s \in UNION { [1..n -> (0..MaxEpoch) \X Rates] : n \in 1..MaxLen } :
        IsValidSchedule(s) }

LastEpoch(s) == s[Len(s)][1]

\* ------------------------------------------------------ _lr_schedule
\* Variants of the helper, each differing from it by one slip.

\* The for loop starts at the second breakpoint.
_lr_schedule_skip_first(ep, rate, sched) ==
    LET RECURSIVE Loop(_)
        Loop(i) ==
            IF i > Len(sched) THEN rate
            ELSE IF ep = sched[i][1] THEN sched[i][2]
            ELSE Loop(i + 1)
    IN  IF ep < sched[1][1] \/ ep > sched[Len(sched)][1]
        THEN rate
        ELSE Loop(2)

\* An epoch without an exact match takes the rate of the breakpoint before it.
_lr_schedule_hold(ep, rate, sched) ==
    LET RECURSIVE Loop(_)
        Loop(i) ==
            IF i > Len(sched) THEN rate
            ELSE IF ep = sched[i][1] THEN sched[i][2]
            ELSE IF i < Len(sched) /\ sched[i][1] < ep /\ ep < sched[i + 1][1]
                 THEN sched[i][2]
            ELSE Loop(i + 1)
    IN  IF ep < sched[1][1] \/ ep > sched[Len(sched)][1]
        THEN rate
        ELSE Loop(1)

\* Past the last breakpoint the last breakpoint's rate is returned again.
_lr_schedule_repeat_last(ep, rate, sched) ==
    LET RECURSIVE Loop(_)
        Loop(i) ==
            IF i > Len(sched) THEN rate
            ELSE IF ep = sched[i][1] THEN sched[i][2]
            ELSE Loop(i + 1)
    IN  IF ep < sched[1][1] THEN rate
        ELSE IF ep > sched[Len(sched)][1] THEN sched[Len(sched)][2]
        ELSE Loop(1)

\* An epoch without an exact match takes the mean of the current rate and the
\* next breakpoint's rate.
_lr_schedule_interpolate(ep, rate, sched) ==
    LET RECURSIVE Loop(_)
        Loop(i) ==
            IF i > Len(sched) THEN rate
            ELSE IF ep = sched[i][1] THEN sched[i][2]
            ELSE IF ep < sched[i][1] THEN (rate + sched[i][2]) \div 2
            ELSE Loop(i + 1)
    IN  IF ep < sched[1][1] \/ ep > sched[Len(sched)][1]
        THEN rate
        ELSE Loop(1)

\* The range test excludes the last breakpoint's epoch (>= for >).
_lr_schedule_last_excluded(ep, rate, sched) ==
    LET RECURSIVE Loop(_)
        Loop(i) ==
            IF i > Len(sched) THEN rate
            ELSE IF ep = sched[i][1] THEN sched[i][2]
            ELSE Loop(i + 1)
    IN  IF ep < sched[1][1] \/ ep >= sched[Len(sched)][1]
        THEN rate
        ELSE Loop(1)

\* The helper of on_epoch_begin as the source has it: the range test, then
\* the first exact match of the for loop, else the current rate.
_lr_schedule(ep, rate, sched) ==
    LET RECURSIVE Loop(_)
        Loop(i) ==
            IF i > Len(sched) THEN rate
            ELSE IF ep = sched[i][1] THEN sched[i][2]
            ELSE Loop(i + 1)
    IN  IF ep < sched[1][1] \/ ep > sched[Len(sched)][1]
        THEN rate
        ELSE Loop(1)

\* "%6.6f" % scheduled_lr: the rate rounded to six decimals, counted in
\* units of 1e-6 (no enumerated rate is a tie).
Format6(rate) == (rate + 5) \div 10


\* --------------------------------------------------------- the script
args == <<export_only, eval_only, initial_epoch, epochs, latest_checkpoint>>
callback == <<epoch, lr, scheduled_lr, log, step, events, ncalls>>

\* model.compile(optimizer=keras.optimizers.Adam(0.0001), ...)
Compile ==
    /\ pc = "compile"
    /\ hasLr' = TRUE
    /\ optLr' = OptimizerDefault
    /\ lr0' = OptimizerDefault
    /\ pc' = "restore"
    /\ UNCHANGED <<args, calls, schedule, callback, lrAtEpochEnd>>

\* if latest_checkpoint: model.load_weights(latest_checkpoint)
RestoreCheckpoint ==
    /\ pc = "restore"
    /\ calls' = IF latest_checkpoint THEN Append(calls, "load_weights") ELSE calls
    /\ pc' = "export_check"
    /\ UNCHANGED <<args, schedule, hasLr, optLr, callback, lr0, lrAtEpochEnd>>

\* The export branch without its quit(): the script goes on after the save.
ExportOnly_no_quit ==
    /\ pc = "export_check"
    /\ calls' = IF export_only THEN Append(calls, "save") ELSE calls
    /\ pc' = "eval_check"
    /\ UNCHANGED <<args, schedule, hasLr, optLr, callback, lr0, lrAtEpochEnd>>

\* if args.export_only: model.save(export_dir); quit()
ExportOnly ==
    /\ pc = "export_check"
    /\ IF export_only
       THEN calls' = Append(calls, "save") /\ pc' = "quit"
       ELSE calls' = calls /\ pc' = "eval_check"
    /\ UNCHANGED <<args, schedule, hasLr, optLr, callback, lr0, lrAtEpochEnd>>

\* if args.eval_only: model.evaluate(dataset_test); quit()
EvalOnly ==
    /\ pc = "eval_check"
    /\ IF eval_only
       THEN calls' = Append(calls, "evaluate") /\ pc' = "quit"
       ELSE calls' = calls /\ pc' = "setup"
    /\ UNCHANGED <<args, schedule, hasLr, optLr, callback, lr0, lrAtEpochEnd>>

\* schedule = [...]; callback_lr = EpochBasedLearningRateSchedule(schedule)
MakeCallback ==
    /\ pc = "setup"
    /\ schedule' = ShippedSchedule
    /\ pc' = "fit"
    /\ UNCHANGED <<args, calls, hasLr, optLr, callback, lr0, lrAtEpochEnd>>

\* model.evaluate(dataset_test) after model.fit returned
FinalEvaluate ==
    /\ pc = "fit_done"
    /\ calls' = Append(calls, "evaluate")
    /\ pc' = "done"
    /\ UNCHANGED <<args, schedule, hasLr, optLr, callback, lr0, lrAtEpochEnd>>

\* ---------------------------------------------------------- model.fit
\* model.fit(..., epochs=epochs, callbacks=callbacks,
\*           initial_epoch=args.initial_epoch): epochs initial_epoch..epochs-1
Fit ==
    /\ pc = "fit"
    /\ calls' = Append(calls, "fit")
    /\ epoch' = initial_epoch
    /\ lrAtEpochEnd' = optLr
    /\ step' = 0
    /\ events' = <<>>
    /\ pc' = IF initial_epoch < epochs THEN "epoch_begin" ELSE "fit_done"
    /\ UNCHANGED <<args, schedule, hasLr, optLr, lr, scheduled_lr, log, lr0, ncalls>>

\* on_epoch_begin returned: the epoch's training steps start
BeginSteps ==
    /\ pc = "cb_return"
    /\ pc' = "train"
    /\ UNCHANGED <<args, calls, schedule, hasLr, optLr, callback, lr0, lrAtEpochEnd>>

\* one training step of the epoch; Adam leaves its lr alone
TrainStep ==
    /\ pc = "train"
    /\ step < NumSteps
    /\ step' = step + 1
    /\ events' = Append(events, "step")
    /\ UNCHANGED <<pc, args, calls, schedule, hasLr, optLr, epoch, lr,
                   scheduled_lr, log, lr0, lrAtEpochEnd, ncalls>>

\* the epoch ends; fit goes on to the next epoch or returns
EpochEnd ==
    /\ pc = "train"
    /\ step = NumSteps
    /\ lrAtEpochEnd' = optLr
    /\ epoch' = epoch + 1
    /\ step' = 0
    /\ events' = <<>>
    /\ pc' = IF epoch + 1 < epochs THEN "epoch_begin" ELSE "fit_done"
    /\ UNCHANGED <<args, calls, schedule, hasLr, optLr, lr, scheduled_lr,
                   log, lr0, ncalls>>

\* ----------------------------------------------------- on_epoch_begin
\* on_epoch_begin without the hasattr test.
CheckOptimizer_no_raise ==
    /\ pc = "epoch_begin"
    /\ lr' = Unset
    /\ scheduled_lr' = Unset
    /\ pc' = "cb_read"
    /\ UNCHANGED <<args, calls, schedule, hasLr, optLr, epoch, log, step,
                   events, lr0, lrAtEpochEnd, ncalls>>

\* if not hasattr(self.model.optimizer, "lr"): raise ValueError(...)
CheckOptimizer ==
    /\ pc = "epoch_begin"
    /\ lr' = Unset
    /\ scheduled_lr' = Unset
    /\ pc' = IF hasLr THEN "cb_read" ELSE "raised"
    /\ UNCHANGED <<args, calls, schedule, hasLr, optLr, epoch, log, step,
                   events, lr0, lrAtEpochEnd, ncalls>>

\* lr = float(tf.keras.backend.get_value(self.model.optimizer.learning_rate))
ReadRate ==
    /\ pc = "cb_read"
    /\ lr' = optLr
    /\ events' = Append(events, "read")
    /\ pc' = "cb_resolve"
    /\ UNCHANGED <<args, calls, schedule, hasLr, optLr, epoch, scheduled_lr,
                   log, step, lr0, lrAtEpochEnd, ncalls>>

\* scheduled_lr = _lr_schedule(epoch, lr, self.schedule)
Resolve ==
    /\ pc = "cb_resolve"
    /\ scheduled_lr' = _lr_schedule(epoch, lr, schedule)
    /\ events' = Append(events, "resolve")
    /\ pc' = "cb_write"
    /\ UNCHANGED <<args, calls, schedule, hasLr, optLr, epoch, lr, log, step,
                   lr0, lrAtEpochEnd, ncalls>>

\* set_value given lr, the rate that was read, for scheduled_lr.
WriteRate_stale ==
    /\ pc = "cb_write"
    /\ optLr' = lr
    /\ events' = Append(events, "write")
    /\ pc' = "cb_log"
    /\ UNCHANGED <<args, calls, schedule, hasLr, epoch, lr, scheduled_lr, log,
                   step, lr0, lrAtEpochEnd, ncalls>>

\* tf.keras.backend.set_value(self.model.optimizer.lr, scheduled_lr)
WriteRate ==
    /\ pc = "cb_write"
    /\ optLr' = scheduled_lr
    /\ events' = Append(events, "write")
    /\ pc' = "cb_log"
    /\ UNCHANGED <<args, calls, schedule, hasLr, epoch, lr, scheduled_lr, log,
                   step, lr0, lrAtEpochEnd, ncalls>>

\* print("\nEpoch %05d: Learning rate is %6.6f." % (epoch, scheduled_lr))
LogRate ==
    /\ pc = "cb_log"
    /\ log' = Append(log, <<epoch, Format6(scheduled_lr)>>)
    /\ events' = Append(events, "log")
    /\ ncalls' = ncalls + 1
    /\ pc' = "cb_return"
    /\ UNCHANGED <<args, calls, schedule, hasLr, optLr, epoch, lr,
                   scheduled_lr, step, lr0, lrAtEpochEnd>>

\* ------------------------------------------- a host other than fit
\* Any host may call on_epoch_begin with any epoch, in any order.
HostCall ==
    /\ pc = "host"
    /\ ncalls < MaxCalls
    /\ \E e \in 0..(MaxEpoch + 1) : epoch' = e
    /\ events' = <<>>
    /\ pc' = "epoch_begin"
    /\ UNCHANGED <<args, calls, schedule, hasLr, optLr, lr, scheduled_lr, log,
                   step, lr0, lrAtEpochEnd, ncalls>>

HostReturn ==
    /\ pc = "cb_return"
    /\ pc' = "host"
    /\ UNCHANGED <<args, calls, schedule, hasLr, optLr, callback, lr0, lrAtEpochEnd>>

\* --------------------------------------------------- specifications
\* The script, from its first statement, for any command line.
EpochsArgs == {MaxTail, LastEpoch(ShippedSchedule) + MaxTail, DefaultEpochs}

Init ==
    /\ pc = "compile"
    /\ export_only \in BOOLEAN
    /\ eval_only \in BOOLEAN
    /\ initial_epoch \in 0..DefaultEpochs
    /\ epochs \in EpochsArgs
    /\ latest_checkpoint \in BOOLEAN
    /\ calls = <<>>
    /\ schedule = <<>>
    /\ hasLr = FALSE
    /\ optLr = Unset
    /\ epoch = 0
    /\ lr = Unset
    /\ scheduled_lr = Unset
    /\ log = <<>>
    /\ step = 0
    /\ events = <<>>
    /\ lr0 = Unset
    /\ lrAtEpochEnd = Unset
    /\ ncalls = 0

Next ==
    \/ Compile \/ RestoreCheckpoint \/ ExportOnly \/ EvalOnly \/ MakeCallback
    \/ Fit \/ BeginSteps \/ TrainStep \/ EpochEnd
    \/ CheckOptimizer \/ ReadRate \/ Resolve \/ WriteRate \/ LogRate
    \/ FinalEvaluate

Spec == Init /\ [][Next]_vars

\* model.fit driving the callback, for any valid schedule and any optimizer,
\* and for the shipped schedule with the shipped optimizer.
InitFitCommon ==
    /\ pc = "fit"
    /\ export_only = FALSE
    /\ eval_only = FALSE
    /\ latest_checkpoint = FALSE
    /\ calls = <<>>
    /\ epoch = 0
    /\ lr = Unset
    /\ scheduled_lr = Unset
    /\ log = <<>>
    /\ step = 0
    /\ events = <<>>
    /\ lr0 = optLr
    /\ lrAtEpochEnd = optLr
    /\ ncalls = 0

InitFit ==
    /\ \/ /\ schedule \in ValidSchedules
          /\ hasLr \in BOOLEAN
          /\ optLr \in Rates
          /\ initial_epoch \in 0..(LastEpoch(schedule) + MaxTail)
          /\ epochs \in 1..(LastEpoch(schedule) + MaxTail)
       \/ /\ schedule = ShippedSchedule
          /\ hasLr = TRUE
          /\ optLr = OptimizerDefault
          /\ initial_epoch \in 0..DefaultEpochs
          /\ epochs = DefaultEpochs
    /\ InitFitCommon

NextFit ==
    \/ Fit \/ BeginSteps \/ TrainStep \/ EpochEnd
    \/ CheckOptimizer \/ ReadRate \/ Resolve \/ WriteRate \/ LogRate

SpecFit == InitFit /\ [][NextFit]_vars

\* on_epoch_begin called by any host, with any epochs in any order.
InitCallback ==
    /\ pc = "host"
    /\ export_only = FALSE
    /\ eval_only = FALSE
    /\ initial_epoch = 0
    /\ epochs = 0
    /\ latest_checkpoint = FALSE
    /\ calls = <<>>
    /\ schedule \in ValidSchedules
    /\ hasLr = TRUE
    /\ optLr \in Rates
    /\ epoch = 0
    /\ lr = Unset
    /\ scheduled_lr = Unset
    /\ log = <<>>
    /\ step = 0
    /\ events = <<>>
    /\ lr0 = optLr
    /\ lrAtEpochEnd = optLr
    /\ ncalls = 0

NextCallback ==
    \/ HostCall \/ HostReturn
    \/ CheckOptimizer \/ ReadRate \/ Resolve \/ WriteRate \/ LogRate

SpecCallback == InitCallback /\ [][NextCallback]_vars


\* ------------------------------------------------------------ claims
\* on_epoch_begin has computed scheduled_lr from (epoch, lr, schedule).
Resolved == pc \in {"cb_write", "cb_log", "cb_return"}

IsBreakpoint(e) == \E i \in 1..Len(schedule) : schedule[i][1] = e

\* C1: for every valid schedule, every breakpoint (e, r) in it and every
\* current rate, resolving epoch e returns exactly r.
C1_BreakpointRate ==
    Resolved =>
        \A i \in 1..Len(schedule) :
            schedule[i][1] = epoch => scheduled_lr = schedule[i][2]

C1_Witness ==
    /\ Resolved
    /\ \E i \in 1..Len(schedule) :
          /\ schedule[i][1] = epoch
          /\ schedule[i][2] # lr
          /\ scheduled_lr = schedule[i][2]

\* C2: for an epoch strictly between the first and the last breakpoint epoch
\* that equals no breakpoint's epoch, resolving returns the current rate
\* unchanged (no interpolation, no carry-forward of the earlier breakpoint).
C2_BetweenKeepsCurrent ==
    (/\ Resolved
     /\ schedule[1][1] < epoch
     /\ epoch < LastEpoch(schedule)
     /\ ~IsBreakpoint(epoch))
    => scheduled_lr = lr

C2_Witness ==
    /\ Resolved
    /\ ~IsBreakpoint(epoch)
    /\ \E i \in 1..(Len(schedule) - 1) :
          /\ schedule[i][1] < epoch
          /\ epoch < schedule[i + 1][1]
          /\ schedule[i][2] # lr
          /\ schedule[i + 1][2] # lr
    /\ scheduled_lr = lr

\* C3: for an epoch before the first breakpoint or after the last one,
\* resolving returns the current rate unchanged; past the last breakpoint the
\* last breakpoint's rate is not re-returned.
C3_OutsideKeepsCurrent ==
    (Resolved /\ (epoch < schedule[1][1] \/ epoch > LastEpoch(schedule)))
    => scheduled_lr = lr

C3_Witness ==
    /\ Resolved
    /\ epoch > LastEpoch(schedule)
    /\ lr # schedule[Len(schedule)][2]
    /\ scheduled_lr = lr

\* The rate an uninterrupted run of the script (epoch 0 onward, optimizer
\* compiled with the default rate) has in effect during epoch e.
RECURSIVE UninterruptedRate(_)
UninterruptedRate(e) ==
    _lr_schedule(e,
                 IF e = 0 THEN OptimizerDefault ELSE UninterruptedRate(e - 1),
                 ShippedSchedule)

\* C4: resuming at any epoch N (fit started with initial_epoch = N on a freshly
\* compiled optimizer, the weights restored from the latest checkpoint) puts the same rate in effect for epoch N and every later
\* epoch as an uninterrupted run from epoch 0 has at those epochs.
C4_ResumeSameRate ==
    (pc = "train" /\ latest_checkpoint) => optLr = UninterruptedRate(epoch)

\* C5: if the optimizer exposes no "lr" attribute, on_epoch_begin raises before
\* any schedule logic: the rate is not read, none is resolved, nothing is
\* written, no line is logged and no training step of the epoch runs.
C5_NoLrRaisesFirst ==
    ~hasLr =>
        /\ pc \in {"fit", "epoch_begin", "raised", "fit_done"}
        /\ lr = Unset
        /\ scheduled_lr = Unset
        /\ optLr = lr0
        /\ log = <<>>
        /\ events = <<>>
        /\ step = 0
        /\ ncalls = 0

C5_Witness ==
    /\ ~hasLr
    /\ pc = "raised"
    /\ IsBreakpoint(epoch)

CallbackEvents == <<"read", "resolve", "write", "log">>

\* C6: in every training run the callback runs exactly once at the start of
\* each epoch and reads, resolves and writes the rate, in that order, before
\* any training step of the epoch; during the epoch's steps the optimizer's
\* rate is the rate resolved from the rate at the end of the previous epoch,
\* and the logged (epoch, rate) is the pair that was written.
C6_CallbackBeforeSteps ==
    /\ pc \in {"epoch_begin", "cb_read", "cb_resolve", "cb_write", "cb_log",
               "cb_return"}
       => /\ step = 0
          /\ Len(events) <= 4
          /\ events = SubSeq(CallbackEvents, 1, Len(events))
    /\ pc = "train"
       => /\ events = CallbackEvents \o [k \in 1..step |-> "step"]
          /\ Len(log) = epoch - initial_epoch + 1
          /\ \A k \in 1..Len(log) : log[k][1] = initial_epoch + k - 1
          /\ log[Len(log)] = <<epoch, Format6(optLr)>>
          /\ optLr = _lr_schedule(epoch, lrAtEpochEnd, schedule)

C6_Witness ==
    /\ pc = "train"
    /\ step = NumSteps
    /\ epoch > initial_epoch
    /\ optLr # lrAtEpochEnd
    /\ log[Len(log)] = <<epoch, Format6(optLr)>>

\* C7: resolution carries no state between calls: no call modifies the
\* schedule held by the callback, and running on_epoch_begin a second time for
\* the same epoch right after the first leaves the optimizer's rate as the
\* first run left it.
C7_PureAndIdempotent ==
    [][/\ schedule' = schedule
       /\ (/\ pc = "cb_write"
           /\ Len(log) > 0
           /\ log[Len(log)][1] = epoch)
          => optLr' = optLr]_vars

C7_Witness ==
    /\ pc = "cb_log"
    /\ Len(log) > 0
    /\ log[Len(log)][1] = epoch
    /\ optLr # lr0

\* The calls the script makes in each mode, in order.
RestoreCalls == IF latest_checkpoint THEN <<"load_weights">> ELSE <<>>

ExpectedCalls ==
    RestoreCalls \o
        (IF export_only THEN <<"save">>
         ELSE IF eval_only THEN <<"evaluate">>
         ELSE <<"fit", "evaluate">>)

\* C8: with export_only the script saves once and quits without fit or
\* evaluate (also when eval_only is set); with only eval_only it evaluates once
\* and quits without fit or save; with neither it calls fit and then evaluate
\* once; load_weights (iff a checkpoint exists) comes before all of these.
C8_ModesNeverTrain ==
    /\ Len(calls) <= Len(ExpectedCalls)
    /\ calls = SubSeq(ExpectedCalls, 1, Len(calls))
    /\ pc \in {"quit", "done"} => calls = ExpectedCalls
    /\ pc = "quit" => (export_only \/ eval_only)
    /\ pc = "done" => (~export_only /\ ~eval_only)

C8_Witness ==
    /\ pc = "quit"
    /\ export_only
    /\ eval_only
    /\ latest_checkpoint
    /\ calls = <<"load_weights", "save">>

\* The rate of the latest breakpoint of s whose epoch is <= e, or init when e
\* is before the first breakpoint.
HoldRate(e, s, init) ==
    IF e < s[1][1] THEN init
    ELSE LET i == CHOOSE j \in 1..Len(s) :
                      /\ s[j][1] <= e
                      /\ \A k \in 1..Len(s) : s[k][1] <= e => k <= j
         IN  s[i][2]

ShippedRate(e) ==
    IF e = 0 THEN 1000
    ELSE IF e <= 29 THEN 10000
    ELSE IF e <= 49 THEN 1000
    ELSE 100

\* C9: in an uninterrupted run from epoch 0 the rate in effect during epoch e
\* is the rate of the latest breakpoint whose epoch is <= e, and the
\* optimizer's initial rate before the first breakpoint; with the shipped
\* schedule and initial rate 0.0001 that is 0.0001 at epoch 0, 0.001 for
\* epochs 1..29, 0.0001 for 30..49 and 0.00001 from epoch 50 on.
C9_UninterruptedHolds ==
    (pc = "train" /\ initial_epoch = 0)
    => /\ optLr = HoldRate(epoch, schedule, lr0)
       /\ (schedule = ShippedSchedule /\ lr0 = OptimizerDefault)
          => optLr = ShippedRate(epoch)

C9_Witness ==
    /\ pc = "train"
    /\ initial_epoch = 0
    /\ schedule = ShippedSchedule
    /\ epoch = 55
    /\ optLr = 100

\* C10: after any sequence of on_epoch_begin calls, in any epoch order, the
\* optimizer's rate is the rate it had before the first call or one of the
\* rates listed in the schedule.
C10_OnlyListedRates ==
    \/ optLr = lr0
    \/ \E i \in 1..Len(schedule) : optLr = schedule[i][2]

C10_Witness ==
    /\ ncalls >= 2
    /\ pc = "host"
    /\ optLr # lr0
    /\ \E i \in 1..Len(schedule) : optLr = schedule[i][2]

====
